---- MODULE Spec2Model ----
(***************************************************************************)
(* A model of the synapse hub (src/synapse): the repository of             *)
(* applications and permissions, the in-memory connection registry, the    *)
(* RPC handlers and dispatch, the emitter and the per-connection session   *)
(* loop handle_spokes.                                                     *)
(*                                                                         *)
(* Every definition is translated from the body of the function it names.  *)
(* Names a body uses that this snapshot of the repository does not define  *)
(* (SessionLocal, remove_connection, Application.update_from_dict, the     *)
(* handler of "register") are modelled on the specification and say so    *)
(* where they are defined.  The Application record carries the columns     *)
(* the service layer reads and writes (id, is_active, is_admin).           *)
(***************************************************************************)
EXTENDS Integers, Sequences, FiniteSets, TLC

\* ------------------------------------------------------------- bounds
MaxApps == 2

MaxWriters == 2

\* frames read by the session loops, hub-wide
MaxFrames == 2

\* writes or drains that raise, hub-wide
MaxFailures == 1

\* elements of a batch payload
MaxBatch == 2

\* applications in the repository a delete cascades over
MaxCascadeApps == 3

\* writers one emit_message call is given
MaxEmitWriters == 3

AppIds == 1..MaxApps

Writers == 1..MaxWriters

\* Python's None where an application id is expected (hub.py: target_id=None)
None == 0

\* types/rpc_types.py: the closed enumeration of actions
RPCAction ==
    { "inbound_dispatch", "inbound_request", "inbound_response",
      "inbound_notification", "outbound_dispatch", "outbound_request",
      "outbound_response", "outbound_notification" }

\* the action strings clients send in this model: two members of the
\* enumeration and one string outside it
ActionInputs == { "outbound_request", "outbound_response", "bogus" }

VARIABLES
    applications,   \* rows of table applications: [id, is_active, is_admin]
    permissions,    \* rows of application_permissions:
                    \*   [owner_id, target_id, action, is_active]
    connections,    \* connection_services.connections: set of [id, writer]
    lastCall,       \* the last RPC served: its request and its response
    pc,             \* per session (one per writer): where handle_spokes is
    nread,          \* frames read by the loops of all sessions so far
    conn_id,        \* per session: connection.id, bound after the handshake
    emitting,       \* per session: the emit_message call in progress or last
    wire,           \* per writer and sending session: the frames written
                    \* to the writer on the session's account, in order
    nfailed         \* writes or drains that raised so far

repo == <<applications, permissions>>

sess == <<pc, nread, conn_id, emitting, wire, nfailed>>

vars == <<applications, permissions, connections, lastCall,
          pc, nread, conn_id, emitting, wire, nfailed>>

\* ------------------------------------------------- repository: queries

\* application_services.find_application_by_id: the row or nothing
find_application_by_id(apps, app_id) ==
    { a \in apps : a.id = app_id }

\* the filter of find_authorized_applications: filter_by(target_id, action)
\* and, when active_only, is_active IS TRUE.  target_id = None matches no row
\* (the column is NOT NULL).
\* a filter on the owner column in place of the target column
target_permission_filter_by_owner(perms, target_id, action, active_only) ==
    { p \in perms : /\ p.owner_id = target_id
                    /\ p.action = action
                    /\ (active_only => p.is_active) }

target_permission_filter(perms, target_id, action, active_only) ==
    { p \in perms : /\ p.target_id = target_id
                    /\ p.action = action
                    /\ (active_only => p.is_active) }

\* the admin query with the active flag required as well
admin_apps_active_only(apps) ==
    { a \in apps : a.is_admin /\ a.is_active }

\* the admin query of find_authorized_applications: is_admin IS TRUE
admin_apps(apps) ==
    { a \in apps : a.is_admin }

\* permission_services.find_authorized_applications
find_authorized_applications(apps, perms, target_id, action, active_only) ==
    LET target_permissions ==
            target_permission_filter(perms, target_id, action, active_only)
        owners == UNION { find_application_by_id(apps, p.owner_id) :
                            p \in target_permissions }
    IN  owners \cup admin_apps(apps)

\* hub.find_authorized_writers, first half: the ids of the authorized apps
authorized_app_ids(apps, perms, target_id, action) ==
    { a.id : a \in find_authorized_applications(apps, perms, target_id,
                                                action, TRUE) }

\* ------------------------------------------------- repository: updates

\* the result of a service call: what it returns and the tables afterwards
Out(ok, apps, perms) == [ok |-> ok, apps |-> apps, perms |-> perms]

\* grant_permission line 127: the Query object built for the reverse row
reverse_permission(perms, owner_id, target_id, action) ==
    { p \in perms : /\ p.owner_id = target_id
                    /\ p.target_id = owner_id
                    /\ p.action = action }

\* a test of the reverse Query that is never true
query_is_truthy_never(q) == FALSE

\* grant_permission line 133: "if reverse_permission:" tests the Query object
\* itself, not its rows; a Query defines neither __bool__ nor __len__, so the
\* test is true whatever the rows.
query_is_truthy(q) == TRUE

\* grant_permission without its own checks, leaving the row to the table's
\* constraints (foreign keys, unique triple)
grant_permission_unchecked(apps, perms, owner_id, target_id, action) ==
    IF \/ find_application_by_id(apps, owner_id) = {}
       \/ find_application_by_id(apps, target_id) = {}
       \/ \E p \in perms : /\ p.owner_id = owner_id
                            /\ p.target_id = target_id
                            /\ p.action = action
    THEN [ok |-> FALSE, apps |-> apps, perms |-> perms]
    ELSE [ok |-> TRUE, apps |-> apps,
          perms |-> perms \cup
                      { [owner_id |-> owner_id, target_id |-> target_id,
                         action |-> action, is_active |-> TRUE] }]

\* permission_services.grant_permission
grant_permission(apps, perms, owner_id, target_id, action) ==
    IF owner_id = target_id
    THEN Out(FALSE, apps, perms)
    ELSE IF query_is_truthy(reverse_permission(perms, owner_id, target_id,
                                                action))
    THEN Out(FALSE, apps, perms)
    ELSE IF find_application_by_id(apps, owner_id) = {}
    THEN Out(FALSE, apps, perms)
    ELSE IF find_application_by_id(apps, target_id) = {}
    THEN Out(FALSE, apps, perms)
    ELSE IF \E p \in perms : /\ p.owner_id = owner_id
                              /\ p.target_id = target_id
                              /\ p.action = action
    THEN Out(FALSE, apps, perms)       \* IntegrityError: unique triple
    ELSE Out(TRUE, apps,
             perms \cup { [owner_id |-> owner_id, target_id |-> target_id,
                           action |-> action, is_active |-> TRUE] })

\* permission_services.revoke_permission(db, permission_id): delete the row
revoke_permission(apps, perms, permission) ==
    IF permission \in perms
    THEN Out(TRUE, apps, perms \ {permission})
    ELSE Out(FALSE, apps, perms)

\* a delete whose cascade follows owned_permissions only
delete_application_owned_only(apps, perms, app_id) ==
    IF find_application_by_id(apps, app_id) = {}
    THEN Out(FALSE, apps, perms)
    ELSE Out(TRUE,
             { a \in apps : a.id # app_id },
             { p \in perms : p.owner_id # app_id })

\* application_services.delete_application: the row and, by cascade, every
\* permission it owns or is the target of
delete_application(apps, perms, app_id) ==
    IF find_application_by_id(apps, app_id) = {}
    THEN Out(FALSE, apps, perms)
    ELSE Out(TRUE,
             { a \in apps : a.id # app_id },
             { p \in perms : p.owner_id # app_id /\ p.target_id # app_id })

\* Application.update_from_dict: only whitelisted fields are applied; the
\* model carries is_active of them
update_from_dict(app, updates) ==
    IF updates.has_is_active
    THEN [app EXCEPT !.is_active = updates.is_active]
    ELSE app

\* application_services.update_application
update_application(apps, perms, app_id, updates) ==
    IF updates.empty
    THEN Out(FALSE, apps, perms)
    ELSE IF find_application_by_id(apps, app_id) = {}
    THEN Out(FALSE, apps, perms)
    ELSE Out(TRUE,
             { IF a.id = app_id THEN update_from_dict(a, updates) ELSE a :
                 a \in apps },
             perms)

\* the update dictionaries clients send in this model
Updates ==
    { [empty |-> TRUE,  has_is_active |-> FALSE, is_active |-> FALSE],
      [empty |-> FALSE, has_is_active |-> TRUE,  is_active |-> FALSE] }

NoUpdates == [empty |-> TRUE, has_is_active |-> FALSE, is_active |-> FALSE]

\* ------------------------------------------------- connection registry

\* connection_services.find_connection_by_writer: the loop returns the first
\* match in the set's iteration order; here the set of candidates
find_connection_by_writer(conns, writer) ==
    { c \in conns : c.writer = writer }

\* connection_services.find_connection_by_id: the candidates, likewise
find_connection_by_id(conns, id) ==
    { c \in conns : c.id = id }

\* connection_services.find_connections() without filter, sort, skip, limit
find_connections(conns) == conns

\* connection_services.add_connection: connections.add(ApplicationConnection);
\* equality and hash are over (id, writer)
add_connection(conns, id, writer) ==
    conns \cup { [id |-> id, writer |-> writer] }

\* connections.discard(connection)
discard(conns, connection) == conns \ {connection}

\* ------------------------------------------------- RPC handlers

\* what a handler does: it raises, or returns RPCResponseData(error, result)
\* (error = 0 stands for no error), and leaves the tables and the registry
Data(error, result, apps, perms, conns) ==
    [raise |-> "", error |-> error, result |-> result,
     apps |-> apps, perms |-> perms, conns |-> conns]

Raise(exc, apps, perms, conns) ==
    [raise |-> exc, error |-> 0, result |-> "",
     apps |-> apps, perms |-> perms, conns |-> conns]

\* request.params as the keyword arguments of the handler: names_ok says
\* whether the keys are the handler's parameter names
Params(names_ok, id, owner_id, target_id, action, updates, token_valid) ==
    [names_ok |-> names_ok, id |-> id, owner_id |-> owner_id,
     target_id |-> target_id, action |-> action, updates |-> updates,
     token_valid |-> token_valid]

NoParams == Params(TRUE, None, None, None, "", NoUpdates, FALSE)

\* utils/jwt_utils.verify_token: the claims of a valid token, or a dict
\* with the key "error"
verify_token(token_valid) ==
    IF token_valid THEN { "id", "exp" } ELSE { "error" }

\* a handler that binds the id of the params without looking at the token
\* or at the applications
connect_application_unverified(apps, perms, conns, p) ==
    Data(0, "connected", apps, perms, add_connection(conns, p.id, None))

\* handlers/connection_handlers.connect_application: `not payload` is false
\* for both dicts verify_token returns, none of them empty;
\* add_connection(id, writer) lacks its third argument and raises TypeError;
\* the except branch builds RPCError(code="CONNECTION_ERROR"), which fails
\* validation and raises
connect_application(apps, perms, conns, p) ==
    IF verify_token(p.token_valid) = {}
    THEN Data(-32603, "", apps, perms, conns)
    ELSE Raise("ValidationError", apps, perms, conns)

\* the handler of "register": verify the token, look the application up,
\* bind the session's writer
register_application(apps, perms, conns, p, writer) ==
    IF ~p.token_valid \/ find_application_by_id(apps, p.id) = {}
    THEN Data(-32603, "", apps, perms, conns)
    ELSE Data(0, "connected", apps, perms, add_connection(conns, p.id, writer))

\* handlers/application_handlers.rpc_create_application: the service is
\* called with keywords url, authentication_token it does not take
rpc_create_application(apps, perms, conns, p) ==
    Raise("TypeError", apps, perms, conns)

\* handlers/application_handlers.rpc_update_application
rpc_update_application(apps, perms, conns, p) ==
    LET r == update_application(apps, perms, p.id, p.updates)
    IN  IF r.ok THEN Data(0, "application", r.apps, r.perms, conns)
        ELSE Data(-32002, "", apps, perms, conns)

\* handlers/application_handlers.rpc_delete_application
rpc_delete_application(apps, perms, conns, p) ==
    LET r == delete_application(apps, perms, p.id)
    IN  IF r.ok THEN Data(0, "success", r.apps, r.perms, conns)
        ELSE Data(-32003, "", apps, perms, conns)

\* utils/validator_utils.validate_jsonrpc_error_codes: the codes RPCError
\* accepts
VALID_JSONRPC_2_ERROR_CODES ==
    { -32700, -32600, -32601, -32602, -32603 } \cup (-32099 .. -32000)

\* a server error code RPCError accepts, below the custom codes in use
grant_failed_code_unlisted ==
    CHOOSE c \in VALID_JSONRPC_2_ERROR_CODES : c < -32006 /\ c > -32100

\* the code rpc_grant_permission answers with when the service returns None
grant_failed_code == -32005


\* handlers/application_permission_handlers.rpc_grant_permission
rpc_grant_permission(apps, perms, conns, p) ==
    IF p.action \notin RPCAction
    THEN Data(-32004, "", apps, perms, conns)
    ELSE LET r == grant_permission(apps, perms, p.owner_id, p.target_id,
                                   p.action)
         IN  IF r.ok THEN Data(0, "permission", r.apps, r.perms, conns)
             ELSE Data(grant_failed_code, "", apps, perms, conns)

\* handlers/application_permission_handlers.rpc_revoke_permission: the
\* service revoke_permission(db, permission_id) is called with four
\* arguments and raises TypeError
rpc_revoke_permission(apps, perms, conns, p) ==
    IF p.action \notin RPCAction
    THEN Data(-32004, "", apps, perms, conns)
    ELSE Raise("TypeError", apps, perms, conns)

\* the method names with a handler in the dispatcher's registry
Registered ==
    { "connect", "register", "create_application", "update_application",
      "delete_application", "grant_permission", "revoke_permission" }

\* await handler(**request.params): a keyword mismatch raises TypeError
\* before the handler runs
call_handler(apps, perms, conns, method, p, writer) ==
    IF ~p.names_ok THEN Raise("TypeError", apps, perms, conns)
    ELSE CASE method = "connect" ->
                connect_application(apps, perms, conns, p)
           [] method = "register" ->
                register_application(apps, perms, conns, p, writer)
           [] method = "create_application" ->
                rpc_create_application(apps, perms, conns, p)
           [] method = "update_application" ->
                rpc_update_application(apps, perms, conns, p)
           [] method = "delete_application" ->
                rpc_delete_application(apps, perms, conns, p)
           [] method = "grant_permission" ->
                rpc_grant_permission(apps, perms, conns, p)
           [] OTHER ->
                rpc_revoke_permission(apps, perms, conns, p)

\* a Response that leaves the id out
response_id_null(request) == None

\* dispatch_rpc: id=request.id, on each of the four paths
response_id(request) == request.id

\* utils/dispatch_utils.dispatch_rpc.  request is [has_id, id, method,
\* params]; a Notification passed for a Request has no attribute id, and
\* every path that builds the RPCResponse reads request.id: it raises
\* AttributeError, after the handler has run.
dispatch_rpc(apps, perms, conns, request, writer) ==
    IF request.method \notin Registered
    THEN [raise |-> IF request.has_id THEN "" ELSE "AttributeError",
          id |-> response_id(request), error |-> -32601, result |-> "",
          handler_raise |-> "",
          apps |-> apps, perms |-> perms, conns |-> conns]
    ELSE LET h == call_handler(apps, perms, conns, request.method,
                               request.params, writer)
         IN  [raise |-> IF request.has_id THEN "" ELSE "AttributeError",
              id |-> response_id(request),
              handler_raise |-> h.raise,
              error |-> IF h.raise = "" THEN h.error
                        ELSE IF h.raise = "TypeError" THEN -32602
                        ELSE -32603,
              result |-> IF h.raise = "" THEN h.result ELSE "",
              apps |-> h.apps, perms |-> h.perms, conns |-> h.conns]

\* ------------------------------------------------- initial repository

\* the action value of the row the repository starts with: the one the
\* session loop asks authorization for when it forwards a payload
SeedActions == { "outbound_response" }

\* the applications table at start: any rows, one per id, all active
SeedApplications ==
    { S \in SUBSET [id : AppIds, is_active : {TRUE}, is_admin : BOOLEAN] :
        \A a, b \in S : a.id = b.id => a = b }

\* the permissions table at start: empty, or one row between two existing
\* applications; such a table satisfies the table's constraints (unique
\* triple, foreign keys) and the rules grant_permission is to keep (no
\* self-permission, no active pair in both directions)
SeedPermissions(apps) ==
    LET ids == { a.id : a \in apps }
        rows == { r \in [owner_id : ids, target_id : ids,
                         action : SeedActions, is_active : BOOLEAN] :
                    r.owner_id # r.target_id }
    IN  { {} } \cup { {r} : r \in rows }

NoCall ==
    [method |-> "", id |-> None, params |-> NoParams, writer |-> None,
     raise |-> "", handler_raise |-> "", response_id |-> None, error |-> 0,
     result |-> "", ids_before |-> {}, perms_before |-> {},
     perms_after |-> {}]

InitRepo ==
    /\ applications \in SeedApplications
    /\ permissions \in SeedPermissions(applications)
    /\ lastCall = NoCall

\* ------------------------------------------------- repository actions

\* application_services.create_application with a non-empty name and url:
\* a row with a fresh uuid4 id, active, admin as asked.  The id of a deleted
\* row may come again here: the cascade left no reference to it.
CreateApplication(is_admin) ==
    /\ \E id \in AppIds \ { a.id : a \in applications } :
         applications' = applications \cup
            { [id |-> id, is_active |-> TRUE, is_admin |-> is_admin] }
    /\ UNCHANGED <<permissions, connections, lastCall, sess>>

\* the requests of the repository methods clients send in this model; their
\* ids are two UUIDs (1, 2) and null
RepoRequests ==
    { [has_id |-> TRUE, id |-> 1, method |-> "grant_permission",
       params |-> Params(TRUE, None, o, t, a, NoUpdates, FALSE)] :
         o \in AppIds, t \in AppIds, a \in ActionInputs }
    \cup
    { [has_id |-> TRUE, id |-> 2, method |-> "revoke_permission",
       params |-> Params(TRUE, None, o, (o % MaxApps) + 1, a, NoUpdates,
                         FALSE)] :
         o \in AppIds, a \in {"outbound_request", "bogus"} }
    \cup
    { [has_id |-> TRUE, id |-> 1, method |-> "delete_application",
       params |-> Params(TRUE, i, None, None, "", NoUpdates, FALSE)] :
         i \in AppIds }
    \cup
    { [has_id |-> TRUE, id |-> 2, method |-> "update_application",
       params |-> Params(TRUE, i, None, None, "", u, FALSE)] :
         i \in AppIds, u \in Updates }
    \cup
    { [has_id |-> TRUE, id |-> IF m = "nope" THEN 2 ELSE None, method |-> m,
       params |-> Params(TRUE, None, None, None, "", NoUpdates, FALSE)] :
         m \in {"create_application", "nope"} }
    \cup
    { [has_id |-> TRUE, id |-> 2, method |-> "delete_application",
       params |-> Params(FALSE, None, None, None, "", NoUpdates, FALSE)] }
    \cup
    { [has_id |-> TRUE, id |-> 1, method |-> "connect",
       params |-> Params(TRUE, i, None, None, "", NoUpdates, tv)] :
         i \in AppIds, tv \in BOOLEAN }

\* one request served by dispatch_rpc outside any session
RpcCall(request) ==
    LET r == dispatch_rpc(applications, permissions, connections, request,
                          None)
    IN  /\ applications' = r.apps
        /\ permissions' = r.perms
        /\ connections' = r.conns
        /\ lastCall' = [method |-> request.method, id |-> request.id,
                        params |-> request.params, writer |-> None,
                        raise |-> r.raise, handler_raise |-> r.handler_raise,
                        response_id |-> r.id, error |-> r.error,
                        result |-> r.result,
                        ids_before |-> { a.id : a \in applications },
                        perms_before |-> permissions,
                        perms_after |-> r.perms]
        /\ UNCHANGED sess

\* permission_services.revoke_permission(db, permission_id) called directly
RevokePermission(permission) ==
    LET r == revoke_permission(applications, permissions, permission)
    IN  /\ r.ok
        /\ permissions' = r.perms
        /\ UNCHANGED <<applications, connections, lastCall, sess>>

\* the tokens clients present: whether jwt.decode accepts the token, and
\* the application its claims name
Tokens == [valid : BOOLEAN, sub : AppIds]

\* the first frame of the session on writer s, a Request of method with
\* params {id, authentication_token}, dispatched as handle_spokes does; the
\* call is recorded with the claims of the token
FirstRequest(s, method, id, token) ==
    LET request == [has_id |-> TRUE, id |-> 1, method |-> method,
                    params |-> Params(TRUE, id, None, None, "", NoUpdates,
                                      token.valid)]
        r == dispatch_rpc(applications, permissions, connections, request,
                          s)
    IN  /\ find_connection_by_writer(connections, s) = {}
        /\ connections' = r.conns
        /\ lastCall' = [method |-> method, id |-> request.id,
                        params |-> request.params, writer |-> s,
                        token |-> token, raise |-> r.raise,
                        handler_raise |-> r.handler_raise,
                        response_id |-> r.id, error |-> r.error,
                        result |-> r.result]
        /\ UNCHANGED <<repo, sess>>

\* ------------------------------------------------- registry actions

\* the record of a registry call: its arguments and what it returned
RegistryCall(method, id, writer, result) ==
    [method |-> method,
     params |-> Params(TRUE, id, None, None, "", NoUpdates, FALSE),
     writer |-> writer, error |-> 0, result |-> result, ids_before |-> {},
     perms_before |-> {}, perms_after |-> {}]

\* connection_services.add_connection(id, writer, token)
AddConnection(id, writer) ==
    /\ connections' = add_connection(connections, id, writer)
    /\ lastCall' = RegistryCall("add_connection", id, writer, "connection")
    /\ UNCHANGED <<repo, sess>>

\* connection_services.remove_connection_by_id: the first Connection
\* find_connection_by_id yields is discarded
RemoveConnectionById(id) ==
    /\ IF find_connection_by_id(connections, id) = {}
       THEN /\ connections' = connections
            /\ lastCall' = RegistryCall("remove_connection_by_id", id, None,
                                        "False")
       ELSE /\ \E c \in find_connection_by_id(connections, id) :
                 connections' = discard(connections, c)
            /\ lastCall' = RegistryCall("remove_connection_by_id", id, None,
                                        "True")
    /\ UNCHANGED <<repo, sess>>

\* connection_services.remove_connection_by_writer, likewise
RemoveConnectionByWriter(writer) ==
    /\ IF find_connection_by_writer(connections, writer) = {}
       THEN /\ connections' = connections
            /\ lastCall' = RegistryCall("remove_connection_by_writer", None,
                                        writer, "False")
       ELSE /\ \E c \in find_connection_by_writer(connections, writer) :
                 connections' = discard(connections, c)
            /\ lastCall' = RegistryCall("remove_connection_by_writer", None,
                                        writer, "True")
    /\ UNCHANGED <<repo, sess>>

\* connection_services.find_connection_by_id called directly: a Connection
\* with that id, or None
FindConnectionById(id) ==
    /\ IF find_connection_by_id(connections, id) = {}
       THEN lastCall' = RegistryCall("find_connection_by_id", id, None,
                                     "None")
       ELSE \E c \in find_connection_by_id(connections, id) :
              lastCall' = RegistryCall("find_connection_by_id", c.id,
                                       c.writer, "connection")
    /\ UNCHANGED <<repo, connections, sess>>

\* connection_services.find_connection_by_writer called directly
FindConnectionByWriter(writer) ==
    /\ IF find_connection_by_writer(connections, writer) = {}
       THEN lastCall' = RegistryCall("find_connection_by_writer", None,
                                     writer, "None")
       ELSE \E c \in find_connection_by_writer(connections, writer) :
              lastCall' = RegistryCall("find_connection_by_writer", c.id,
                                       c.writer, "connection")
    /\ UNCHANGED <<repo, connections, sess>>

\* ------------------------------------------------- sessions: state

NoRequest == [has_id |-> FALSE, id |-> 0, method |-> "", params |-> NoParams]

\* no emit_message call yet
NoEmit ==
    [n |-> 0, what |-> "", error |-> 0, from_app |-> None,
     sender_admin |-> FALSE, targets |-> {}, todo |-> {}, done |-> {},
     failed |-> {}, own |-> {}, cont |-> "", request |-> NoRequest]

InitSess ==
    /\ pc = [s \in Writers |-> "handshake"]
    /\ nread = 0
    /\ conn_id = [s \in Writers |-> None]
    /\ emitting = [s \in Writers |-> NoEmit]
    /\ wire = [w \in Writers |-> [s \in Writers |-> <<>>]]
    /\ nfailed = 0

\* ------------------------------------------------- sessions: steps

\* a lookup that takes one Connection for each authorized application
find_authorized_writers_one_each(apps, perms, conns, target_id, action) ==
    { (CHOOSE c \in conns : c.id = i).writer :
        i \in { j \in authorized_app_ids(apps, perms, target_id, action) :
                  \E c \in conns : c.id = j } }

\* hub.find_authorized_writers: the writers of the Connections whose id is
\* an authorized application's
find_authorized_writers(apps, perms, conns, target_id, action) ==
    { c.writer : c \in { d \in find_connections(conns) :
                           d.id \in authorized_app_ids(apps, perms,
                                                       target_id, action) } }

\* remove_connection(connection), which handle_spokes calls in its finally
remove_connection(conns, connection) == discard(conns, connection)

\* handle_spokes, finally: the Connection find_connection_by_writer yields,
\* if any, is removed; the registries this may leave
finally_block(conns, writer) ==
    IF find_connection_by_writer(conns, writer) = {}
    THEN { conns }
    ELSE { remove_connection(conns, c) :
             c \in find_connection_by_writer(conns, writer) }

\* handle_spokes, finally (lines 189-196): find_connection_by_writer and
\* remove_connection are its only calls; neither writer.close() nor
\* wait_closed() is called there or anywhere else in the hub
finally_closes_writer == FALSE

\* where a session stands after a step, with the tables and the registry,
\* and whether it has closed its writer
Outcome(pcv, cid, apps, perms, conns) ==
    [pc |-> pcv, conn_id |-> cid, apps |-> apps, perms |-> perms,
     conns |-> conns,
     writer_closed |-> pcv = "closed" /\ finally_closes_writer]

\* handle_spokes returns or raises: the finally block runs, the task ends
\* and its locals with it
Closed(s, apps, perms, conns) ==
    { Outcome("closed", None, apps, perms, c2) :
        c2 \in finally_block(conns, s) }

\* the writers bound to application id in the registry
writers_of(conns, id) == { c.writer : c \in { d \in conns : d.id = id } }

\* an emit_message call of a session: the payload (n: the number of the
\* frame it answers; what; error), the sender, the writers as
\* find_authorized_writers gave them, those of them bound to the sender
\* (own), and what the session does when the call returns
Emit(n, what, error, from_app, sender_admin, targets, own, cont, request) ==
    [n |-> n, what |-> what, error |-> error, from_app |-> from_app,
     sender_admin |-> sender_admin, targets |-> targets, todo |-> targets,
     done |-> {}, failed |-> {}, own |-> targets \cap own, cont |-> cont,
     request |-> request]

\* emit_message, try branch: write and drain succeeded
emit_write_ok(em, w) ==
    [em EXCEPT !.todo = @ \ {w}, !.done = @ \cup {w}]

\* an except branch that leaves the loop over the writers
emit_write_failed_stops(em, w) ==
    [em EXCEPT !.todo = {}, !.done = @ \cup {w}, !.failed = @ \cup {w}]

\* emit_message, except branch: the error is logged and the loop goes on
emit_write_failed(em, w) ==
    [em EXCEPT !.todo = @ \ {w}, !.done = @ \cup {w}, !.failed = @ \cup {w}]

\* the frame emit_message writes to writer w: the payload (n, what),
\* whether w was bound to the sender and whether the sender was an admin
\* when the set of writers was made
Frame(em, w) ==
    [n |-> em.n, what |-> em.what, echo |-> w \in em.own,
     admin |-> em.sender_admin]

\* handle_spokes after an emit_message call has returned:
\*   "handshake": lines 114-129; "loop": back to the read of line 132;
\*   "dispatch": lines 157-164, where dispatch_rpc of the first Notification
\*   raises after its handler ran (and, had it not raised, batch_response[0]
\*   of the empty list would)
after_emit(s, cid, em, apps, perms, conns) ==
    CASE em.cont = "handshake" ->
            IF em.error # 0
            THEN Closed(s, apps, perms, conns)
            ELSE IF find_connection_by_writer(conns, s) = {}
            THEN Closed(s, apps, perms, conns)
            ELSE { Outcome("running", c.id, apps, perms, conns) :
                     c \in find_connection_by_writer(conns, s) }
      [] em.cont = "loop" ->
            { Outcome("running", cid, apps, perms, conns) }
      [] OTHER ->
            LET r == dispatch_rpc(apps, perms, conns, em.request, s)
            IN  Closed(s, r.apps, r.perms, r.conns)

\* session s goes on with emit_message call em: to the next writer, or, with
\* no writer left, past the call
Proceed(s, cid, em, apps, perms, conns) ==
    \E o \in (IF em.todo = {}
              THEN after_emit(s, cid, em, apps, perms, conns)
              ELSE { Outcome("emit", cid, apps, perms, conns) }) :
        /\ pc' = [pc EXCEPT ![s] = o.pc]
        /\ conn_id' = [conn_id EXCEPT ![s] = o.conn_id]
        /\ applications' = o.apps
        /\ permissions' = o.perms
        /\ connections' = o.conns
        /\ emitting' = [emitting EXCEPT ![s] =
                           CASE o.pc = "closed" -> NoEmit
                             [] o.pc = "running" ->
                                  [em EXCEPT !.cont = "", !.request = NoRequest]
                             [] OTHER -> em]

\* what decode_payload yields for a frame: kind is "eof" (IncompleteReadError),
\* "bad_shape" (parse_rpc_object or a validator raises), "json_error" (None),
\* "empty_batch", or the shape of the payload decoded
InFrame(kind, method, params) ==
    [kind |-> kind, method |-> method, params |-> params]

\* the first frames clients send in this model
HandshakeFrames ==
    { InFrame(k, "", NoParams) :
        k \in {"eof", "bad_shape", "json_error", "notification", "response"} }
    \cup { InFrame("request", "nope", NoParams) }
    \cup { InFrame("request", "connect",
                   Params(ok, i, None, None, "", NoUpdates, tv)) :
             ok \in BOOLEAN, i \in AppIds, tv \in BOOLEAN }
    \cup { InFrame("request", "register",
                   Params(TRUE, i, None, None, "", NoUpdates, tv)) :
             i \in AppIds, tv \in BOOLEAN }

\* a handshake that takes any method
handshake_methods_any == { "connect", "register", "nope" }

\* handle_spokes line 95: the methods of a first Request
handshake_methods == { "connect", "register" }

\* the RPCRequest decode_payload made of a frame that holds one Request
initial_payload(f) ==
    [has_id |-> TRUE, id |-> 1, method |-> f.method, params |-> f.params]

\* a set of recipients made of the registry as it was before the dispatch
handshake_writers_before_dispatch(apps, perms, conns, r) ==
    find_authorized_writers(apps, perms, conns, None, "outbound_response")

\* handle_spokes lines 106-112: the recipients of init_response, made after
\* dispatch_rpc has returned r, of the tables and the registry it left
handshake_writers(apps, perms, conns, r) ==
    find_authorized_writers(r.apps, r.perms, r.conns, None,
                            "outbound_response")

\* handle_spokes lines 86-129: the first frame, its dispatch, and the emit
\* of the response to the writers authorized for (None, OUTBOUND_RESPONSE)
Handshake(s, f) ==
    /\ pc[s] = "handshake"
    /\ IF f.kind = "request" /\ f.method \in handshake_methods
       THEN LET r == dispatch_rpc(applications, permissions, connections,
                                  initial_payload(f), s)
                targets == handshake_writers(applications, permissions,
                                             connections, r)
            IN  Proceed(s, None,
                        Emit(0, "response", r.error, None, FALSE, targets,
                             {}, "handshake", NoRequest),
                        r.apps, r.perms, r.conns)
       ELSE /\ \E o \in Closed(s, applications, permissions,
                                connections) :
                 /\ pc' = [pc EXCEPT ![s] = o.pc]
                 /\ connections' = o.conns
            /\ conn_id' = [conn_id EXCEPT ![s] = None]
            /\ emitting' = [emitting EXCEPT ![s] = NoEmit]
            /\ UNCHANGED <<applications, permissions>>
    /\ UNCHANGED <<nread, wire, nfailed, lastCall>>

\* the frames clients send to a running session in this model
LoopFrames ==
    { InFrame(k, "", NoParams) :
        k \in {"eof", "bad_shape", "json_error", "empty_batch", "response",
              "responses", "request", "mixed"} }
    \cup { InFrame("notification", "nope", NoParams) }
    \cup { InFrame("notification", "register",
                   Params(TRUE, i, None, None, "", NoUpdates, TRUE)) :
             i \in AppIds }

\* a Response branch that asks for the set of the synthetic Response
response_forward_action_inbound == "inbound_response"

\* handle_spokes line 144: the action the Response branch asks the
\* authorized writers for
response_forward_action == "outbound_response"

\* handle_spokes line 154: the action the Notification branch asks the
\* authorized writers for
notification_forward_action == "outbound_response"

\* an else branch that answers to the set of the forwarded Responses
synthetic_response_action_outbound == "outbound_response"

\* handle_spokes line 181: the action the else branch asks the authorized
\* writers for
synthetic_response_action == "inbound_response"

\* a set of writers kept from the session's previous emit_message call
emit_targets_cached(em, authorized_writers) ==
    IF em.n > 0 THEN em.targets ELSE authorized_writers

\* handle_spokes lines 139-145, 152-155, 180-183: find_authorized_writers
\* is called in the argument list of each emit_message call; em is the
\* session's previous call
emit_targets(em, authorized_writers) == authorized_writers

\* the action the branch taken for a payload of this kind asks the
\* authorized writers for
payload_action(kind) ==
    CASE kind \in { "response", "responses" } -> response_forward_action
      [] kind = "notification" -> notification_forward_action
      [] OTHER -> synthetic_response_action

\* a loop that reads the next frame while emit_message is still at work
at_read_or_emitting(s) == pc[s] \in {"running", "emit"}

\* whether the loop of session s is at its read (line 132)
at_read(s) == pc[s] = "running"

\* handle_spokes lines 131-183: one frame read by the loop
Read(s, f) ==
    /\ at_read(s)
    /\ nread < MaxFrames
    /\ nread' = nread + 1
    /\ LET admin == \E a \in applications :
                        a.id = conn_id[s] /\ a.is_admin
           fwd == emit_targets(emitting[s],
                    find_authorized_writers(applications, permissions,
                                            connections, conn_id[s],
                                            response_forward_action))
           nfwd == emit_targets(emitting[s],
                     find_authorized_writers(applications, permissions,
                                             connections, conn_id[s],
                                             notification_forward_action))
           back == emit_targets(emitting[s],
                     find_authorized_writers(applications, permissions,
                                             connections, conn_id[s],
                                             synthetic_response_action))
           own == writers_of(connections, conn_id[s])
       IN  CASE f.kind \in {"eof", "bad_shape", "empty_batch"} ->
                  /\ \E o \in Closed(s, applications, permissions,
                                      connections) :
                       /\ pc' = [pc EXCEPT ![s] = o.pc]
                       /\ connections' = o.conns
                  /\ conn_id' = [conn_id EXCEPT ![s] = None]
                  /\ emitting' = [emitting EXCEPT ![s] = NoEmit]
                  /\ UNCHANGED <<applications, permissions>>
             [] f.kind \in {"response", "responses"} ->
                  Proceed(s, conn_id[s],
                          Emit(nread + 1, "forward", 0, conn_id[s], admin,
                               fwd, own, "loop", NoRequest),
                          applications, permissions, connections)
             [] f.kind = "notification" ->
                  Proceed(s, conn_id[s],
                          Emit(nread + 1, "forward", 0, conn_id[s], admin,
                               nfwd, own, "dispatch",
                               [has_id |-> FALSE, id |-> 0,
                                method |-> f.method, params |-> f.params]),
                          applications, permissions, connections)
             [] OTHER ->
                  Proceed(s, conn_id[s],
                          Emit(nread + 1, "synthetic", -32603, conn_id[s],
                               admin, back, own, "loop", NoRequest),
                          applications, permissions, connections)
    /\ UNCHANGED <<wire, nfailed, lastCall>>

\* emit_message lines 31-41: the write to one writer and its drain, which
\* raise (the peer is gone, the transport is closed) or do not
EmitStep(s, w, raises) ==
    /\ pc[s] = "emit"
    /\ w \in emitting[s].todo
    /\ IF raises
       THEN /\ nfailed < MaxFailures
            /\ nfailed' = nfailed + 1
            /\ wire' = wire
            /\ Proceed(s, conn_id[s], emit_write_failed(emitting[s], w),
                       applications, permissions, connections)
       ELSE /\ nfailed' = nfailed
            /\ wire' = [wire EXCEPT ![w][s] =
                          Append(@, Frame(emitting[s], w))]
            /\ Proceed(s, conn_id[s], emit_write_ok(emitting[s], w),
                       applications, permissions, connections)
    /\ UNCHANGED <<nread, lastCall>>

\* the session task is cancelled at an await (server shutdown):
\* CancelledError passes the except clauses, the finally block runs
Cancel(s) ==
    /\ pc[s] \in {"handshake", "running", "emit"}
    /\ \E o \in Closed(s, applications, permissions, connections) :
         /\ pc' = [pc EXCEPT ![s] = o.pc]
         /\ connections' = o.conns
    /\ conn_id' = [conn_id EXCEPT ![s] = None]
    /\ emitting' = [emitting EXCEPT ![s] = NoEmit]
    /\ UNCHANGED <<applications, permissions, nread, wire, nfailed,
                   lastCall>>

\* ------------------------------------------------- framing

\* Values are strings: "null" is JSON null and Python None, UUIDs are the
\* request ids.  An error is [null, code]: null, or an RPCError object.
UUIDs == { "u1", "u2" }

NoError == [null |-> TRUE, code |-> 0]

\* schemas/rpc_schema: the fields of the three models
Fields(type) ==
    CASE type = "RPCRequest" -> { "jsonrpc", "id", "method", "params" }
      [] type = "RPCNotification" -> { "jsonrpc", "method", "params" }
      [] OTHER -> { "jsonrpc", "id", "result", "error" }

RPCRequest(jsonrpc, id, method, params) ==
    [type |-> "RPCRequest", jsonrpc |-> jsonrpc, id |-> id,
     method |-> method, params |-> params]

RPCNotification(jsonrpc, method, params) ==
    [type |-> "RPCNotification", jsonrpc |-> jsonrpc, method |-> method,
     params |-> params]

RPCResponse(jsonrpc, id, result, error) ==
    [type |-> "RPCResponse", jsonrpc |-> jsonrpc, id |-> id,
     result |-> result, error |-> error]

\* a JSON object: the keys it has and their values (a key it does not have
\* is null here and is never read); is_dict is what isinstance(item, dict)
\* answers for it
JsonObject(keys, jsonrpc, id, method, params, result, error) ==
    [is_dict |-> TRUE, keys |-> keys, jsonrpc |-> jsonrpc, id |-> id,
     method |-> method, params |-> params, result |-> result,
     error |-> error]

\* a JSON value that is no object: a number, a string, null
JsonScalar ==
    [JsonObject({}, "2.0", "null", "null", "null", "null", NoError)
       EXCEPT !.is_dict = FALSE]

\* a dump that leaves out the fields that are None
model_dump_exclude_none(m) ==
    LET has(k) == k \in Fields(m.type)
        id == IF has("id") THEN m.id ELSE "null"
        method == IF has("method") THEN m.method ELSE "null"
        params == IF has("params") THEN m.params ELSE "null"
        result == IF has("result") THEN m.result ELSE "null"
        error == IF has("error") THEN m.error ELSE NoError
    IN  JsonObject({ "jsonrpc" }
                     \cup (IF id # "null" THEN { "id" } ELSE {})
                     \cup (IF method # "null" THEN { "method" } ELSE {})
                     \cup (IF params # "null" THEN { "params" } ELSE {})
                     \cup (IF result # "null" THEN { "result" } ELSE {})
                     \cup (IF ~error.null THEN { "error" } ELSE {}),
                   m.jsonrpc, id, method, params, result, error)

\* serialize_payload on a model: obj.model_dump(), every field a key,
\* None as null
model_dump(m) ==
    LET has(k) == k \in Fields(m.type)
    IN  JsonObject(Fields(m.type), m.jsonrpc,
                   IF has("id") THEN m.id ELSE "null",
                   IF has("method") THEN m.method ELSE "null",
                   IF has("params") THEN m.params ELSE "null",
                   IF has("result") THEN m.result ELSE "null",
                   IF has("error") THEN m.error ELSE NoError)

\* what a constructor or parser yields: an exception, or a value
Parsed(raise, value) == [raise |-> raise, value |-> value]

\* the value of key k of obj as the model's constructor sees it: the
\* default when the key is missing
field(obj, k, default) == IF k \in obj.keys THEN obj[k] ELSE default

\* validate_jsonrpc_version
validate_jsonrpc(v) == v = "2.0"

\* validate_id of RPCRequest and RPCResponse: a falsy id becomes None, any
\* other must be a UUID
id_valid(v) == v \in { "null", "" } \cup UUIDs

validate_id(v) == IF v \in { "null", "" } THEN "null" ELSE v

\* RPCError.validate_code
error_valid(e) == e.null \/ e.code \in VALID_JSONRPC_2_ERROR_CODES

\* payload_utils.parse_rpc_object: the model is chosen by the keys, then
\* built from the object (a key that is no field is ignored)
parse_rpc_object(obj) ==
    LET jsonrpc == field(obj, "jsonrpc", "2.0")
    IN  IF "method" \in obj.keys /\ "id" \in obj.keys
        THEN IF validate_jsonrpc(jsonrpc) /\ id_valid(obj.id)
             THEN Parsed("", RPCRequest(jsonrpc, validate_id(obj.id),
                                        obj.method,
                                        field(obj, "params", "null")))
             ELSE Parsed("ValidationError", NoError)
        ELSE IF "method" \in obj.keys
        THEN IF validate_jsonrpc(jsonrpc)
             THEN Parsed("", RPCNotification(jsonrpc, obj.method,
                                             field(obj, "params", "null")))
             ELSE Parsed("ValidationError", NoError)
        ELSE IF "result" \in obj.keys \/ "error" \in obj.keys
        THEN IF /\ validate_jsonrpc(jsonrpc)
                /\ "id" \in obj.keys
                /\ id_valid(obj.id)
                /\ error_valid(field(obj, "error", NoError))
             THEN Parsed("", RPCResponse(jsonrpc, validate_id(obj.id),
                                         field(obj, "result", "null"),
                                         field(obj, "error", NoError)))
             ELSE Parsed("ValidationError", NoError)
        ELSE Parsed("ValueError", NoError)

\* a payload, in Python or in JSON: one item, or a list of items
Payload(batch, items) == [batch |-> batch, items |-> items]

\* serialize_payload: a model is dumped, a list is serialized item by item
serialize_payload(payload) ==
    Payload(payload.batch,
            [i \in DOMAIN payload.items |-> model_dump(payload.items[i])])

\* the length of the JSON text of a value, counted in keys and brackets
json_length(json) ==
    LET n[i \in 0..Len(json.items)] ==
          IF i = 0 THEN 0
          ELSE n[i - 1] + 1 + Cardinality(json.items[i].keys)
    IN  n[Len(json.items)] + (IF json.batch THEN 2 ELSE 0)

\* payload_utils.encode_payload: the four bytes of the length, then the
\* JSON text
encode_payload(payload) ==
    [length |-> json_length(serialize_payload(payload)),
     body |-> serialize_payload(payload)]

\* payload_utils.decode_payload on a frame read whole: readexactly(4),
\* readexactly(length), json.loads, then parse_rpc_object on the dict or on
\* every item of the list that is a dict (the body is a dict or a list)
decode_payload(frame) ==
    IF frame.length # json_length(frame.body)
    THEN Parsed("IncompleteReadError", Payload(FALSE, <<>>))
    ELSE LET dicts == IF frame.body.batch
                      THEN SelectSeq(frame.body.items,
                                     LAMBDA item : item.is_dict)
                      ELSE frame.body.items
             parsed == [i \in DOMAIN dicts |-> parse_rpc_object(dicts[i])]
         IN  IF \E i \in DOMAIN parsed : parsed[i].raise # ""
             THEN Parsed(parsed[CHOOSE i \in DOMAIN parsed :
                                  /\ parsed[i].raise # ""
                                  /\ \A j \in DOMAIN parsed :
                                       parsed[j].raise # "" => i <= j].raise,
                         Payload(FALSE, <<>>))
             ELSE Parsed("", Payload(frame.body.batch,
                                     [i \in DOMAIN parsed |->
                                        parsed[i].value]))

\* the well-formed models of this model
Requests ==
    { RPCRequest("2.0", id, method, params) :
        id \in UUIDs \cup { "null" }, method \in { "m1", "m2" },
        params \in { "null", "p" } }

Notifications ==
    { RPCNotification("2.0", method, params) :
        method \in { "m1", "m2" }, params \in { "null", "p" } }

Responses ==
    { RPCResponse("2.0", id, result, error) :
        id \in UUIDs \cup { "null" }, result \in { "null", "r" },
        error \in { NoError, [null |-> FALSE, code |-> -32601] } }

\* the well-formed payloads: one model, or a list of Requests or of
\* Responses
Payloads ==
    { Payload(FALSE, <<m>>) :
        m \in Requests \cup Notifications \cup Responses }
    \cup { Payload(TRUE, b) :
             b \in UNION { [1..n -> Requests] : n \in 0..MaxBatch } }
    \cup { Payload(TRUE, b) :
             b \in UNION { [1..n -> Responses] : n \in 0..MaxBatch } }

\* encode_payload called on payload
EncodePayload(payload) ==
    /\ lastCall' = [method |-> "encode_payload", payload |-> payload,
                    frame |-> encode_payload(payload),
                    decoded |-> Parsed("", Payload(FALSE, <<>>))]
    /\ UNCHANGED <<repo, connections, sess>>

\* decode_payload reads the frame encode_payload made
DecodePayload ==
    /\ lastCall.method = "encode_payload"
    /\ lastCall' = [lastCall EXCEPT !.method = "decode_payload",
                                    !.decoded = decode_payload(lastCall.frame)]
    /\ UNCHANGED <<repo, connections, sess>>

\* the JSON objects clients send in this model: any keys among jsonrpc, id,
\* method and result, a version, and an id that is null, empty, a string
\* that is no UUID, or a UUID
RawObjects ==
    { JsonObject(keys, jsonrpc, id, "m1", "null", "r", NoError) :
        keys \in SUBSET { "jsonrpc", "id", "method", "result" },
        jsonrpc \in { "2.0", "1.0" },
        id \in { "null", "", "not-a-uuid", "u1" } }

\* decode_payload reads a frame whose body is the JSON object obj
DecodeFrame(obj) ==
    LET body == Payload(FALSE, <<obj>>)
        frame == [length |-> json_length(body), body |-> body]
    IN  /\ lastCall' = [method |-> "decode_frame",
                        payload |-> Payload(FALSE, <<>>),
                        frame |-> frame,
                        decoded |-> decode_payload(frame)]
        /\ UNCHANGED <<repo, connections, sess>>

\* the elements of the JSON arrays clients send in this model: a Request, a
\* Response, a Notification, and a value that is no object
RawItems ==
    { JsonObject({ "jsonrpc", "id", "method" }, "2.0", "u1", "m1", "null",
                 "null", NoError),
      JsonObject({ "jsonrpc", "id", "result" }, "2.0", "u1", "null", "null",
                 "r", NoError),
      JsonObject({ "jsonrpc", "method" }, "2.0", "null", "m1", "null",
                 "null", NoError),
      JsonScalar }

RawArrays == UNION { [1..n -> RawItems] : n \in 0..MaxBatch }

\* decode_payload reads a frame whose body is the JSON array arr
DecodeArray(arr) ==
    LET body == Payload(TRUE, arr)
        frame == [length |-> json_length(body), body |-> body]
    IN  /\ lastCall' = [method |-> "decode_array",
                        payload |-> Payload(FALSE, <<>>),
                        frame |-> frame,
                        decoded |-> decode_payload(frame)]
        /\ UNCHANGED <<repo, connections, sess>>

\* ------------------------------------------------- emit_message

\* the writers an emit_message call may be given
EmitWriters == 1..MaxEmitWriters

\* one emit_message call: the writers it was given, those the for loop has
\* not come to yet (todo), the one whose drain is awaited (cur, or None),
\* those served, those that raised, whether the call has returned; blocked
\* are the writers whose drain never completes (a peer that does not read)
EmitCall(writers, blocked) ==
    [method |-> "emit_message", writers |-> writers, todo |-> writers,
     cur |-> None, done |-> {}, failed |-> {}, blocked |-> blocked,
     returned |-> FALSE]

\* emit_message lines 33-38: the loop takes the next writer, in the
\* iteration order of the set, writes and awaits its drain
EmitWrite(w) ==
    /\ lastCall.cur = None
    /\ ~lastCall.returned
    /\ w \in lastCall.todo
    /\ lastCall' = [lastCall EXCEPT !.cur = w, !.todo = @ \ {w}]
    /\ UNCHANGED <<repo, connections, sess>>

\* emit_message lines 38-41: the drain awaited returns, or raises and the
\* error is logged; the loop goes on
EmitDrained(raises) ==
    /\ lastCall.cur # None
    /\ lastCall.cur \notin lastCall.blocked
    /\ lastCall' = [lastCall EXCEPT
                      !.cur = None,
                      !.done = IF raises THEN @ ELSE @ \cup {lastCall.cur},
                      !.failed = IF raises THEN @ \cup {lastCall.cur} ELSE @]
    /\ UNCHANGED <<repo, connections, sess>>

\* emit_message returns when the loop is over: the session goes on
EmitReturn ==
    /\ lastCall.cur = None
    /\ lastCall.todo = {}
    /\ ~lastCall.returned
    /\ lastCall' = [lastCall EXCEPT !.returned = TRUE]
    /\ UNCHANGED <<repo, connections, sess>>

\* ------------------------------------------------- dispatch registry

\* config/dispatch_config: the modules the dispatcher loads its handlers
\* from
handler_modules ==
    << "synapse.handlers.connection_handlers",
       "synapse.handlers.application_handlers",
       "synapse.handlers.application_permission_handlers" >>

\* the names each module registers with @dispatcher.register when it is
\* imported
module_methods(module) ==
    CASE module = "synapse.handlers.connection_handlers" ->
           { "connect" }
      [] module = "synapse.handlers.application_handlers" ->
           { "create_application", "read_application", "list_applications",
             "update_application", "delete_application" }
      [] OTHER ->
           { "get_permissions_for_owner", "get_permissions_for_target",
             "grant_permission", "revoke_permission",
             "check_has_permission" }

\* DispatchManager._load_handlers: every module is imported in turn; an
\* ImportError (failing: the modules whose import raises it) is logged and
\* the loop goes on
load_handlers(failing) ==
    UNION { module_methods(handler_modules[i]) :
              i \in { j \in DOMAIN handler_modules :
                        handler_modules[j] \notin failing } }

\* DispatchManager.get_handler on a loaded registry: the handler (named by
\* its method here), or None (the empty string)
get_handler(registry, name) == IF name \in registry THEN name ELSE ""

\* the names looked up in this model
LookupNames ==
    load_handlers({}) \cup { "register", "nope", "" }

\* the dispatcher after construction: nothing registered, nothing loaded
NoRegistry ==
    [method |-> "", name |-> "", handler |-> "", registry |-> {},
     failed |-> {}, loaded |-> FALSE]

\* dispatcher.get_handler(name): the first call loads the modules
GetHandler(name, failing) ==
    LET registry == IF lastCall.loaded THEN lastCall.registry
                    ELSE load_handlers(failing)
    IN  /\ lastCall' = [method |-> "get_handler", name |-> name,
                        handler |-> get_handler(registry, name),
                        registry |-> registry,
                        failed |-> IF lastCall.loaded THEN lastCall.failed
                                   ELSE failing,
                        loaded |-> TRUE]
        /\ UNCHANGED <<repo, connections, sess>>

\* ------------------------------------------------- specifications

\* the repository and its RPC handlers, served outside any session
InitRepoSpec == InitRepo /\ connections = {} /\ InitSess

NextRepo ==
    \/ \E is_admin \in BOOLEAN : CreateApplication(is_admin)
    \/ \E request \in RepoRequests : RpcCall(request)
    \/ \E permission \in permissions : RevokePermission(permission)

RepoSpec == InitRepoSpec /\ [][NextRepo]_vars

\* the connection registry driven through its own operations
InitRegistry ==
    /\ applications = {}
    /\ permissions = {}
    /\ connections = {}
    /\ lastCall = NoCall
    /\ InitSess

NextRegistry ==
    \/ \E id \in AppIds, writer \in Writers : AddConnection(id, writer)
    \/ \E id \in AppIds : RemoveConnectionById(id)
    \/ \E writer \in Writers : RemoveConnectionByWriter(writer)
    \/ \E id \in AppIds : FindConnectionById(id)
    \/ \E writer \in Writers : FindConnectionByWriter(writer)

RegistrySpec == InitRegistry /\ [][NextRegistry]_vars

\* sessions that send their first frame and end, over a table of
\* applications
InitBind ==
    /\ applications \in SeedApplications
    /\ permissions = {}
    /\ connections = {}
    /\ lastCall = NoCall
    /\ InitSess

NextBind ==
    \/ \E s \in Writers, method \in handshake_methods, id \in AppIds,
          token \in Tokens : FirstRequest(s, method, id, token)
    \/ \E writer \in Writers : RemoveConnectionByWriter(writer)

BindSpec == InitBind /\ [][NextBind]_vars

\* the framing functions: a payload encoded, then decoded
NextFraming ==
    \/ \E payload \in Payloads : EncodePayload(payload)
    \/ DecodePayload
    \/ \E obj \in RawObjects : DecodeFrame(obj)
    \/ \E arr \in RawArrays : DecodeArray(arr)

FramingSpec == InitRegistry /\ [][NextFraming]_vars

\* a repository of up to MaxCascadeApps applications with up to two
\* permissions between them, and the calls that delete an application
CascadeApplications ==
    SUBSET { [id |-> i, is_active |-> TRUE, is_admin |-> FALSE] :
               i \in 1..MaxCascadeApps }

CascadePermissions(apps) ==
    LET ids == { a.id : a \in apps }
        rows == { r \in [owner_id : ids, target_id : ids,
                         action : { "outbound_request" },
                         is_active : BOOLEAN] :
                    r.owner_id # r.target_id }
    IN  { P \in SUBSET rows :
            /\ Cardinality(P) <= 2
            /\ \A q, r \in P :
                 (q.owner_id = r.owner_id /\ q.target_id = r.target_id)
                   => q = r }

InitCascade ==
    /\ applications \in CascadeApplications
    /\ permissions \in CascadePermissions(applications)
    /\ connections = {}
    /\ lastCall = NoCall
    /\ InitSess

CascadeRequests ==
    { [has_id |-> TRUE, id |-> 1, method |-> "delete_application",
       params |-> Params(TRUE, i, None, None, "", NoUpdates, FALSE)] :
         i \in 1..MaxCascadeApps }

NextCascade == \E request \in CascadeRequests : RpcCall(request)

CascadeSpec == InitCascade /\ [][NextCascade]_vars

\* one emit_message call on any set of writers, some of which may never
\* drain; the event loop runs every step that stays possible
InitEmit ==
    /\ applications = {}
    /\ permissions = {}
    /\ connections = {}
    /\ lastCall \in { EmitCall(writers, blocked) :
                        writers \in SUBSET EmitWriters,
                        blocked \in SUBSET EmitWriters }
    /\ InitSess

NextEmit ==
    \/ \E w \in EmitWriters : EmitWrite(w)
    \/ \E raises \in BOOLEAN : EmitDrained(raises)
    \/ EmitReturn

EmitSpec == InitEmit /\ [][NextEmit]_vars /\ WF_vars(NextEmit)

\* the dispatcher: lookups, the first of which loads the handler modules,
\* any of which may fail to import
InitDispatcher ==
    /\ applications = {}
    /\ permissions = {}
    /\ connections = {}
    /\ lastCall = NoRegistry
    /\ InitSess

NextDispatcher ==
    \E name \in LookupNames,
       failing \in SUBSET { handler_modules[i] : i \in DOMAIN handler_modules } :
      GetHandler(name, failing)

DispatcherSpec == InitDispatcher /\ [][NextDispatcher]_vars

\* the hub: sessions over a repository that starts with some applications
\* and at most one permission
Init == InitRepo /\ connections = {} /\ InitSess

Next ==
    \/ \E s \in Writers, f \in HandshakeFrames : Handshake(s, f)
    \/ \E s \in Writers, f \in LoopFrames : Read(s, f)
    \/ \E s \in Writers, w \in Writers, raises \in BOOLEAN :
         EmitStep(s, w, raises)
    \/ \E s \in Writers : Cancel(s)

Spec == Init /\ [][Next]_vars

\* sessions that register and send Responses and Requests, while
\* permissions are revoked and applications deleted
FreshFrames == { InFrame(k, "", NoParams) : k \in { "response", "request" } }

NextFresh ==
    \/ \E s \in Writers, i \in AppIds :
         Handshake(s, InFrame("request", "register",
                              Params(TRUE, i, None, None, "", NoUpdates,
                                     TRUE)))
    \/ \E s \in Writers, f \in FreshFrames : Read(s, f)
    \/ \E s \in Writers, w \in Writers : EmitStep(s, w, FALSE)
    \/ \E permission \in permissions : RevokePermission(permission)
    \/ \E i \in AppIds :
         RpcCall([has_id |-> TRUE, id |-> 1, method |-> "delete_application",
                  params |-> Params(TRUE, i, None, None, "", NoUpdates,
                                    FALSE)])

FreshSpec == Init /\ [][NextFresh]_vars

\* ------------------------------------------------- claims

\* the last RPC served was grant_permission(owner, target, action) with the
\* handler's keywords and an action of the enumeration
LastWasGrant ==
    /\ lastCall.method = "grant_permission"
    /\ lastCall.params.names_ok
    /\ lastCall.params.action \in RPCAction

\* an active row (owner, target, action) in a table
ActiveRow(perms, owner, target, action) ==
    \E p \in perms : /\ p.owner_id = owner /\ p.target_id = target
                     /\ p.action = action /\ p.is_active

\* C1: after any sequence of registry operations no writer is bound to more
\* than one Connection of the registry, whatever their app-ids.
C1_WriterBoundOnce ==
    \A c, d \in connections : c.writer = d.writer => c = d

C6_NoSelfPermission ==
    /\ \A p \in permissions : p.owner_id # p.target_id
    /\ (LastWasGrant /\ lastCall.params.owner_id = lastCall.params.target_id)
         => /\ lastCall.error = -32005
            /\ lastCall.perms_after = lastCall.perms_before

\* grant_permission(a, a, action) has been served for an existing a
C6_Witness ==
    /\ LastWasGrant
    /\ lastCall.params.owner_id = lastCall.params.target_id
    /\ lastCall.params.owner_id \in lastCall.ids_before
    /\ permissions # {}

\* C7: while an active Permission (A, B, act) exists, grant_permission(B, A,
\* act) answers -32005 and inserts no row; there are never two active
\* Permissions (A, B, act) and (B, A, act).
C7_NoTwoCycle ==
    /\ \A p, q \in permissions :
          ~(/\ p.is_active /\ q.is_active /\ p.action = q.action
            /\ p.owner_id = q.target_id /\ p.target_id = q.owner_id)
    /\ (/\ LastWasGrant
        /\ ActiveRow(lastCall.perms_before, lastCall.params.target_id,
                     lastCall.params.owner_id, lastCall.params.action))
         => /\ lastCall.error = -32005
            /\ lastCall.perms_after = lastCall.perms_before

\* grant_permission(B, A, act) has been served with (A, B, act) active
C7_Witness ==
    /\ LastWasGrant
    /\ lastCall.params.owner_id # lastCall.params.target_id
    /\ ActiveRow(lastCall.perms_before, lastCall.params.target_id,
                 lastCall.params.owner_id, lastCall.params.action)
    /\ lastCall.error = -32005

\* C8: grant_permission(A, B, act) with A # B, both applications existing,
\* no row (A, B, act) and no active reverse row (B, A, act) succeeds: it
\* inserts exactly the active row (A, B, act) and answers with a result.
C8_GrantSucceeds ==
    (/\ LastWasGrant
     /\ lastCall.params.owner_id # lastCall.params.target_id
     /\ lastCall.params.owner_id \in lastCall.ids_before
     /\ lastCall.params.target_id \in lastCall.ids_before
     /\ ~\E p \in lastCall.perms_before :
            /\ p.owner_id = lastCall.params.owner_id
            /\ p.target_id = lastCall.params.target_id
            /\ p.action = lastCall.params.action
     /\ ~ActiveRow(lastCall.perms_before, lastCall.params.target_id,
                   lastCall.params.owner_id, lastCall.params.action))
      => /\ lastCall.error = 0
         /\ lastCall.result = "permission"
         /\ lastCall.perms_after = lastCall.perms_before \cup
              { [owner_id |-> lastCall.params.owner_id,
                 target_id |-> lastCall.params.target_id,
                 action |-> lastCall.params.action, is_active |-> TRUE] }

\* C2: whenever a session has terminated, whatever the cause, the registry
\* holds no Connection bound to that session's writer
C2_ClosedSessionUnbound ==
    \A s \in Writers :
        pc[s] = "closed" => find_connection_by_writer(connections, s) = {}

\* the frames written to the writers, each with its writer and its session
Written ==
    UNION { { [w |-> w, s |-> s, f |-> wire[w][s][i]] :
                i \in DOMAIN wire[w][s] } :
            <<w, s>> \in Writers \X Writers }

EmitServesAll(s) ==
    LET em == emitting[s]
    IN  /\ em.done \cup em.todo = em.targets
        /\ em.failed \subseteq em.done
        /\ pc[s] = "running" => em.todo = {}
        /\ \A w \in em.done \ em.failed :
             /\ wire[w][s] # <<>>
             /\ wire[w][s][Len(wire[w][s])].n = em.n
             /\ wire[w][s][Len(wire[w][s])].what = em.what

\* a step in which a write of session s raised
WriteRaised(s) ==
    /\ pc[s] = "emit"
    /\ nfailed' > nfailed
    /\ emitting'[s] # emitting[s]

\* C9: emit attempts a write to every writer of the set; a write or drain
\* that raises keeps no remaining writer from the payload, does not end the
\* caller's loop, and removes nothing from the registry
C9_EmitBestEffort ==
    /\ [](\A s \in Writers : EmitServesAll(s))
    /\ [][\A s \in Writers :
            WriteRaised(s) =>
              /\ emitting[s].cont = "loop" => pc'[s] \in {"emit", "running"}
              /\ pc'[s] \in {"emit", "running"} => connections' = connections
         ]_vars

\* an emit_message call has returned in which one write raised and another
\* writer was served
C9_Witness ==
    \E s \in Writers :
        /\ pc[s] = "running"
        /\ emitting[s].failed # {}
        /\ emitting[s].done \ emitting[s].failed # {}

\* C10: the frames written to a writer on account of a session appear in
\* the order in which the session's frames arrived, and a session reads its
\* next frame only when the emit for the previous one has no writer left
C10_OrderedNoPipelining ==
    /\ [](\A w \in Writers, s \in Writers :
            \A i, j \in DOMAIN wire[w][s] :
                i < j => wire[w][s][i].n < wire[w][s][j].n)
    /\ [][\A s \in Writers :
            emitting'[s].n > emitting[s].n => emitting[s].todo = {}
         ]_vars

\* two frames a running session sent have reached the same writer
C10_Witness ==
    \E w \in Writers, s \in Writers :
        /\ Len(wire[w][s]) >= 2
        /\ wire[w][s][Len(wire[w][s]) - 1].n >= 1

\* the last call was a Request served by dispatch_rpc
LastWasRpc == lastCall.method \in Registered \cup {"nope"}

\* C11: the Response dispatch_rpc returns for a Request with a non-null id
\* carries that id, whether the handler is missing, succeeds, returns an
\* error, is called with mismatched arguments or raises
C11_DispatchKeepsId ==
    (LastWasRpc /\ lastCall.id # None)
      => /\ lastCall.raise = ""
         /\ lastCall.response_id = lastCall.id

\* a Request with a non-null id whose handler raised has been answered
C11_Witness ==
    /\ LastWasRpc
    /\ lastCall.id # None
    /\ lastCall.handler_raise = "ValidationError"
    /\ lastCall.response_id = lastCall.id

\* C12: dispatch_rpc returns a Response and does not raise; a missing
\* handler gives -32601, a mismatch of the arguments when the handler is
\* invoked gives -32602, any other exception of the handler gives -32603
C12_DispatchErrorCodes ==
    LastWasRpc
      => /\ lastCall.raise = ""
         /\ lastCall.method \notin Registered => lastCall.error = -32601
         /\ (lastCall.method \in Registered /\ ~lastCall.params.names_ok)
              => lastCall.error = -32602
         /\ (/\ lastCall.method \in Registered
             /\ lastCall.params.names_ok
             /\ lastCall.handler_raise # "")
              => lastCall.error = -32603

\* the codes the hub declares: the reserved JSON-RPC codes and -32000..-32006
DeclaredCodes ==
    { -32700, -32600, -32601, -32602, -32603 } \cup (-32006 .. -32000)

\* C13: every error code in a Response of the hub (of dispatch, of a
\* handler, of the handshake, synthetic) is a reserved JSON-RPC code or one
\* of -32000..-32006
C13_ErrorCodesDeclared ==
    /\ lastCall.error # 0 => lastCall.error \in DeclaredCodes
    /\ \A s \in Writers :
         emitting[s].error # 0 => emitting[s].error \in DeclaredCodes

\* grant_permission has been answered with the handler's own error code
C13_Witness ==
    /\ LastWasGrant
    /\ lastCall.error = grant_failed_code

\* C14: framing is a round trip: decoding the bytes encode_payload makes of
\* a well-formed payload (a Request, a Notification, a Response, a batch of
\* Requests or of Responses) gives a payload of the same shape with the
\* same field values
C14_FramingRoundTrip ==
    lastCall.method = "decode_payload"
      => /\ lastCall.decoded.raise = ""
         /\ lastCall.decoded.value = lastCall.payload

\* a batch of two Requests, one of them with a null id, has been encoded
\* and decoded
C14_Witness ==
    /\ lastCall.method = "decode_payload"
    /\ lastCall.payload.batch
    /\ Len(lastCall.payload.items) = 2
    /\ lastCall.payload.items[1].type = "RPCRequest"
    /\ lastCall.payload.items[1].id = "null"
    /\ lastCall.payload.items[2].id # "null"

\* the first frame f is one Request whose method is connect or register
IsHandshakeRequest(f) ==
    f.kind = "request" /\ f.method \in { "connect", "register" }

\* the Response dispatch_rpc gives for the first frame f of session s
init_response(s, f) ==
    dispatch_rpc(applications, permissions, connections, initial_payload(f), s)

\* C15: a connect request with a valid token for an existing application
\* is answered without error on the client's own writer, a Connection for
\* the application bound to that writer is in the registry, and the session
\* goes on to RUNNING
C15_ConnectSucceeds ==
    [][\A s \in Writers, f \in HandshakeFrames :
         ( /\ f.kind = "request"
           /\ f.method = "connect"
           /\ f.params.names_ok
           /\ f.params.token_valid
           /\ find_application_by_id(applications, f.params.id) # {}
           /\ Handshake(s, f) )
           => /\ pc'[s] = "emit"
              /\ emitting'[s].error = 0
              /\ s \in emitting'[s].targets
              /\ \E c \in connections' :
                   c.id = f.params.id /\ c.writer = s]_vars

\* C16: when the handshake handler returns an error, the error Response
\* goes to the handshake connection's own writer and to no other, and the
\* session closes after it
C16_HandshakeErrorToOwnWriter ==
    [][\A s \in Writers, f \in HandshakeFrames :
         ( /\ IsHandshakeRequest(f)
           /\ init_response(s, f).error # 0
           /\ Handshake(s, f) )
           => /\ pc'[s] = "emit"
              /\ emitting'[s].error # 0
              /\ emitting'[s].cont = "handshake"
              /\ emitting'[s].targets = { s }]_vars

\* C17: a first frame that is not one Request with method connect or
\* register closes the session with nothing dispatched, nothing written and
\* no Connection added; and a session gets to RUNNING only from a first
\* frame that is such a Request and whose dispatch returned no error
C17_HandshakeGate ==
    /\ [][\A s \in Writers, f \in HandshakeFrames :
            (~IsHandshakeRequest(f) /\ Handshake(s, f))
              => /\ pc'[s] = "closed"
                 /\ emitting'[s] = NoEmit
                 /\ wire' = wire
                 /\ connections' \subseteq connections
                 /\ UNCHANGED repo]_vars
    /\ [][\A s \in Writers :
            (pc[s] = "handshake" /\ pc'[s] \in { "emit", "running" })
              => \E f \in HandshakeFrames :
                   /\ IsHandshakeRequest(f)
                   /\ Handshake(s, f)
                   /\ pc'[s] = "running" => init_response(s, f).error = 0]_vars
    /\ [][\A s \in Writers :
            (pc[s] = "emit" /\ emitting[s].cont = "handshake"
               /\ pc'[s] = "running")
              => emitting[s].error = 0]_vars
    /\ [][\A s \in Writers :
            (pc[s] # "running" /\ pc'[s] = "running")
              => \/ pc[s] = "handshake"
                 \/ pc[s] = "emit" /\ emitting[s].cont \in { "handshake", "loop" }]_vars
    /\ [](\A s \in Writers :
            (pc[s] = "emit" /\ emitting[s].cont = "loop") => emitting[s].n > 0)

\* one session was closed at its first frame, nothing written to anyone, and
\* another is RUNNING after the Response of its handshake, which had no error
C17_Witness ==
    \E s, t \in Writers :
      /\ pc[s] = "closed"
      /\ nread = 0
      /\ \A w, u \in Writers : wire[w][u] = <<>>
      /\ pc[t] = "running"
      /\ emitting[t].what = "response"
      /\ emitting[t].error = 0
      /\ \E c \in connections : c.writer = t

\* C18: a connect request whose token fails verification, or whose id is
\* the id of no application, is answered with an error and adds no
\* Connection to the registry
C18_BadConnectRejected ==
    [][( /\ lastCall'.method = "connect"
         /\ \/ ~lastCall'.params.token_valid
            \/ lastCall'.params.id \notin lastCall'.ids_before )
         => /\ lastCall'.error # 0
            /\ connections' \subseteq connections]_vars

\* a connect request with a token that fails verification has been answered
\* with an error, and one for an application that does not exist
C18_Witness ==
    /\ lastCall.method = "connect"
    /\ lastCall.error # 0
    /\ connections = {}
    /\ \/ ~lastCall.params.token_valid
       \/ lastCall.params.id \notin lastCall.ids_before

\* the RPCRequest of a frame that holds one Request, read by the loop
loop_request(f) ==
    [has_id |-> TRUE, id |-> 1, method |-> f.method, params |-> f.params]

\* C19: a Request read by a RUNNING session is dispatched, and the Response
\* of its dispatch (-32601 for a method that is not registered) is emitted
\* to the writers authorized for (sender id, INBOUND_RESPONSE); the hub may
\* forward the Request first (C20), it answers with nothing else
C19_RequestsDispatched ==
    [][\A s \in Writers, f \in LoopFrames :
         (f.kind = "request" /\ Read(s, f))
           => LET r == dispatch_rpc(applications, permissions, connections,
                                    loop_request(f), s)
              IN  /\ emitting'[s].what \in { "forward", "response" }
                  /\ emitting'[s].what = "response"
                       => /\ emitting'[s].error = r.error
                          /\ emitting'[s].targets =
                               find_authorized_writers(
                                 r.apps, r.perms, r.conns, conn_id[s],
                                 "inbound_response")]_vars

\* C20: an all-Request payload read by a RUNNING session is forwarded to
\* the writers authorized for (sender id, OUTBOUND_REQUEST), and to them
\* alone
C20_RequestsForwarded ==
    [][\A s \in Writers, f \in LoopFrames :
         (f.kind = "request" /\ Read(s, f))
           => /\ emitting'[s].what = "forward"
              /\ emitting'[s].targets =
                   find_authorized_writers(applications, permissions,
                                           connections, conn_id[s],
                                           "outbound_request")]_vars

\* C21: a Notification payload read by a RUNNING session is forwarded to
\* the writers authorized for (sender id, OUTBOUND_NOTIFICATION), and to
\* them alone
C21_NotificationsForwarded ==
    [][\A s \in Writers, f \in LoopFrames :
         (f.kind = "notification" /\ Read(s, f))
           => LET authorized ==
                    find_authorized_writers(applications, permissions,
                                            connections, conn_id[s],
                                            "outbound_notification")
              IN  IF authorized = {}
                  THEN pc'[s] # "emit"
                  ELSE /\ pc'[s] = "emit"
                       /\ emitting'[s].what = "forward"
                       /\ emitting'[s].targets = authorized]_vars

\* C22: an all-Response payload read by a RUNNING session is forwarded to
\* the writers authorized for (sender id, OUTBOUND_RESPONSE) and to them
\* alone; nothing is dispatched for it, the hub makes no Response of its
\* own for it, and the session reads on
C22_ResponsesForwarded ==
    /\ [][\A s \in Writers, f \in LoopFrames :
            (f.kind \in { "response", "responses" } /\ Read(s, f))
              => /\ pc'[s] \in { "emit", "running" }
                 /\ emitting'[s].what = "forward"
                 /\ emitting'[s].error = 0
                 /\ emitting'[s].cont \in { "", "loop" }
                 /\ emitting'[s].targets =
                      find_authorized_writers(applications, permissions,
                                              connections, conn_id[s],
                                              "outbound_response")
                 /\ UNCHANGED <<repo, connections, wire>>]_vars
    /\ [][\A s, w \in Writers :
            ( /\ pc[s] = "emit"
              /\ emitting[s].what = "forward"
              /\ emitting[s].cont = "loop"
              /\ wire'[w][s] # wire[w][s] )
              => /\ w \in emitting[s].targets
                 /\ wire'[w][s] = Append(wire[w][s], Frame(emitting[s], w))
                 /\ UNCHANGED <<repo, connections>>
                 /\ pc'[s] \in { "emit", "running" }]_vars

\* a Response of one application has been written to the writer of the
\* owner of an outbound_response permission on it
C22_Witness ==
    \E s, w \in Writers :
      /\ s # w
      /\ wire[w][s] # <<>>
      /\ wire[w][s][1].what = "forward"
      /\ ~wire[w][s][1].admin
      /\ emitting[s].cont = ""
      /\ pc[s] = "running"
      /\ \E p \in permissions, c \in connections :
           /\ p.action = "outbound_response" /\ p.is_active
           /\ p.target_id = conn_id[s]
           /\ c.id = p.owner_id /\ c.writer = w

\* C23: a batch of mixed shapes read by a RUNNING session is answered with
\* one synthetic Response (id null, error -32603) to the writers authorized
\* for (sender id, INBOUND_RESPONSE); nothing is dispatched and the session
\* stays RUNNING
C23_MixedBatchSynthetic ==
    /\ [][\A s \in Writers, f \in LoopFrames :
            (f.kind = "mixed" /\ Read(s, f))
              => /\ pc'[s] \in { "emit", "running" }
                 /\ emitting'[s].what = "synthetic"
                 /\ emitting'[s].error = -32603
                 /\ emitting'[s].request = NoRequest
                 /\ emitting'[s].cont \in { "", "loop" }
                 /\ emitting'[s].targets =
                      find_authorized_writers(applications, permissions,
                                              connections, conn_id[s],
                                              "inbound_response")
                 /\ UNCHANGED <<repo, connections, wire>>]_vars
    /\ [][\A s, w \in Writers :
            ( /\ pc[s] = "emit"
              /\ emitting[s].what = "synthetic"
              /\ wire'[w][s] # wire[w][s] )
              => /\ w \in emitting[s].todo
                 /\ w \notin emitting'[s].todo
                 /\ wire'[w][s] = Append(wire[w][s], Frame(emitting[s], w))
                 /\ UNCHANGED <<repo, connections>>
                 /\ pc'[s] \in { "emit", "running" }]_vars

\* the synthetic Response has been written to the writer of an admin and
\* the session that sent the batch is RUNNING again
C23_Witness ==
    \E s, w \in Writers :
      /\ wire[w][s] # <<>>
      /\ wire[w][s][Len(wire[w][s])].what = "synthetic"
      /\ emitting[s].what = "synthetic"
      /\ emitting[s].error = -32603
      /\ emitting[s].done = emitting[s].targets
      /\ pc[s] = "running"

\* C24: no frame read whole ends a RUNNING session: whatever it decodes to
\* (a Response, a Notification, a Request, a batch, the empty array
\* included) and when its JSON or its shape is invalid, the session is not
\* CLOSED by it; only end of stream, a failed read or cancellation close it
C24_FramesDoNotClose ==
    [][\A s \in Writers, f \in LoopFrames :
         (f.kind # "eof" /\ Read(s, f)) => pc'[s] # "closed"]_vars

\* C25: a frame read whole whose body is malformed JSON is answered with a
\* Response of error code -32700, one whose JSON has an unknown or invalid
\* shape with a Response of error code -32600 (both with id null)
C25_ProtocolErrorCodes ==
    [][\A s \in Writers, f \in LoopFrames :
         /\ (f.kind = "json_error" /\ Read(s, f))
              => /\ emitting'[s].what = "synthetic"
                 /\ emitting'[s].error = -32700
         /\ (f.kind = "bad_shape" /\ Read(s, f))
              => /\ emitting'[s].what = "synthetic"
                 /\ emitting'[s].error = -32600]_vars

\* the twelve built-in methods
BuiltInMethods ==
    { "connect", "register", "create_application", "read_application",
      "list_applications", "update_application", "delete_application",
      "grant_permission", "revoke_permission", "check_has_permission",
      "get_permissions_for_owner", "get_permissions_for_target" }

\* C26: once the registry has been loaded from the declared modules, a
\* lookup finds a handler for each of the twelve built-in methods, and a
\* module that fails to load takes no handler of another module with it
C26_BuiltInsRegistered ==
    lastCall.method = "get_handler"
      => /\ (lastCall.failed = {} /\ lastCall.name \in BuiltInMethods)
              => lastCall.handler # ""
         /\ \A i \in DOMAIN handler_modules :
              handler_modules[i] \notin lastCall.failed
                => module_methods(handler_modules[i]) \subseteq
                     lastCall.registry

\* the rows of perms for (owner, target, action) of the last call's params
MatchingRows(perms) ==
    { r \in perms : /\ r.owner_id = lastCall.params.owner_id
                    /\ r.target_id = lastCall.params.target_id
                    /\ r.action = lastCall.params.action }

\* C27: revoke_permission(owner, target, action) with a valid action
\* answers -32006 and changes no permission when no row matches; when a
\* row matches it succeeds and the permission is no longer active
C27_RevokeByTriple ==
    ( /\ lastCall.method = "revoke_permission"
      /\ lastCall.params.names_ok
      /\ lastCall.params.action \in RPCAction )
      => IF MatchingRows(lastCall.perms_before) = {}
         THEN /\ lastCall.error = -32006
              /\ lastCall.perms_after = lastCall.perms_before
         ELSE /\ lastCall.error = 0
              /\ \A r \in MatchingRows(lastCall.perms_after) : ~r.is_active

\* C28: after delete_application(id) has succeeded no permission owned by
\* id or targeting id is left, and the permissions between the other
\* applications are the ones there were
C28_DeleteCascades ==
    (lastCall.method = "delete_application" /\ lastCall.error = 0)
      => /\ lastCall.params.id \in lastCall.ids_before
         /\ \A a \in applications : a.id # lastCall.params.id
         /\ lastCall.perms_after =
              { p \in lastCall.perms_before :
                  /\ p.owner_id # lastCall.params.id
                  /\ p.target_id # lastCall.params.id }

\* an application that was the target of one permission has been deleted,
\* with a permission between two other applications in the table
C28_Witness ==
    /\ lastCall.method = "delete_application"
    /\ lastCall.error = 0
    /\ \E p, q \in lastCall.perms_before :
         /\ p.target_id = lastCall.params.id
         /\ q.owner_id # lastCall.params.id
         /\ q.target_id # lastCall.params.id
         /\ q \in permissions
         /\ p \notin permissions

\* C29: update_application(id, updates) on an existing application changes
\* whitelisted fields only and never the identifier; an empty update
\* changes nothing and returns the record, not an error
C29_UpdateWhitelist ==
    [][( /\ lastCall' # lastCall
         /\ lastCall'.method = "update_application"
         /\ lastCall'.params.names_ok
         /\ lastCall'.params.id \in lastCall'.ids_before )
         => /\ { a.id : a \in applications' } = { a.id : a \in applications }
            /\ \A a \in applications, b \in applications' :
                 a.id = b.id => a.is_admin = b.is_admin
            /\ permissions' = permissions
            /\ lastCall'.params.updates.empty
                 => /\ lastCall'.error = 0
                    /\ lastCall'.result = "application"
                    /\ applications' = applications]_vars

\* C30: no Request is made with an id that is null, empty or not a UUID:
\* whatever decode_payload accepts as a Request has a UUID for its id
C30_RequestIdIsUuid ==
    (lastCall.method \in { "decode_payload", "decode_frame" }
       /\ lastCall.decoded.raise = "")
      => \A i \in DOMAIN lastCall.decoded.value.items :
           lastCall.decoded.value.items[i].type = "RPCRequest"
             => lastCall.decoded.value.items[i].id \in UUIDs

C32_WriterClosedAtEnd ==
    [][\A s \in Writers :
         (pc[s] # "closed" /\ pc'[s] = "closed")
           => \A o \in Closed(s, applications', permissions', connections) :
                o.writer_closed]_vars

\* C33: a recipient whose drain never completes blocks nobody else: every
\* other writer of the call is eventually served (written to, or its error
\* logged) and the call eventually returns to the session
C33_SlowRecipientBlocksNobody ==
    /\ <>(\A w \in lastCall.writers \ lastCall.blocked :
            w \in lastCall.done \cup lastCall.failed)
    /\ <>lastCall.returned

C35_AuthorizedWritersExact ==
    \A t \in AppIds \cup { None },
       a \in { "outbound_response", "inbound_response" } :
      \A w \in Writers :
        w \in find_authorized_writers(applications, permissions, connections,
                                      t, a)
          <=> \E c \in connections :
                /\ c.writer = w
                /\ c.id \in authorized_app_ids(applications, permissions,
                                               t, a)

\* an authorized application has two Connections and an emit_message call
\* was given both writers
C35_Witness ==
    \E s \in Writers, c, d \in connections :
      /\ c.id = d.id /\ c.writer # d.writer
      /\ pc[s] = "emit"
      /\ emitting[s].targets = { c.writer, d.writer }

\* C36: a Response frame made by encode_payload has exactly one of the keys
\* result and error, and no optional field (params) is written as null
C36_ResponseResultXorError ==
    lastCall.method = "encode_payload"
      => \A i \in DOMAIN lastCall.frame.body.items :
           LET m == lastCall.payload.items[i]
               obj == lastCall.frame.body.items[i]
           IN  /\ m.type = "RPCResponse"
                    => ("result" \in obj.keys) # ("error" \in obj.keys)
               /\ "params" \in obj.keys => obj.params # "null"

\* C37: decode_payload yields a batch for a JSON array only when the array
\* is not empty and its elements are all Requests or all Responses: every
\* other array is a decode error, and no element is dropped
C37_BatchWellFormed ==
    ( /\ lastCall.method \in { "decode_payload", "decode_array" }
      /\ lastCall.frame.body.batch
      /\ lastCall.decoded.raise = "" )
      => LET arr == lastCall.frame.body.items
             batch == lastCall.decoded.value.items
         IN  /\ arr # <<>>
             /\ Len(batch) = Len(arr)
             /\ \/ \A i \in DOMAIN batch : batch[i].type = "RPCRequest"
                \/ \A i \in DOMAIN batch : batch[i].type = "RPCResponse"

C40_RemoveByIdRemovesAll ==
    [][\A id \in AppIds :
         RemoveConnectionById(id)
           => /\ connections' = { c \in connections : c.id # id }
              /\ find_connection_by_id(connections', id) = {}
              /\ lastCall'.result = "True"
                   <=> \E c \in connections : c.id = id]_vars

====
